---- MODULE Spec2Model ----
(***************************************************************************)
(* State-machine model of the vaultflow lending contracts:                 *)
(*   - Math          (contracts/libraries/Math.sol)                        *)
(*   - aToken        (contracts/tokens/aToken.sol)                         *)
(*   - LendingPool   (unnamed/part_008)                                    *)
(* A call that reverts leaves the contract state as it was; the model      *)
(* records the outcome of the latest call in tokenCall / lastCall.         *)
(* TLC integers are 32 bits wide, so the fixed-point unit and the word     *)
(* width are scaled down: RAY is 10^RayDigits (27 digits in the code) and  *)
(* MAX_UINT is 2^UintBits - 1 (256 bits in the code).                      *)
(***************************************************************************)
EXTENDS Integers, Sequences, FiniteSets, TLC

VARIABLES
  \* ---- aToken storage (aToken.sol:38-44 and the inherited ERC20/Pausable)
  liquidityIndex,     \* uint256 liquidityIndex
  scaledTotalSupply,  \* uint256 scaledTotalSupply
  scaledBalanceOf,    \* mapping(address => uint256) scaledBalanceOf
  balanceOf,          \* ERC20 _balances
  totalSupply,        \* ERC20 _totalSupply
  tokenPaused,        \* Pausable _paused of the aToken
  tokenCall,          \* outcome of the latest aToken call
  \* ---- LendingPool (part_008)
  pool,               \* the pool's storage and the balances it moves, see PoolInit
  executing,          \* the call suspended in an external ETH transfer, if any
  lastCall,           \* outcome of the latest LendingPool call
  \* ---- Math (libraries/Math.sol) and the views built on it
  mathCall,           \* arguments and result of the latest library call
  \* ---- ChainlinkPriceOracle (oracles/ChainlinkPriceOracle.sol)
  oracle              \* the oracle's storage, its feed and the clock, see OracleInit

tokenVars == <<liquidityIndex, scaledTotalSupply, scaledBalanceOf, balanceOf,
               totalSupply, tokenPaused, tokenCall>>
poolVars  == <<pool, executing, lastCall>>
vars      == <<tokenVars, poolVars, mathCall, oracle>>

(***************************************************************************)
(* Bounds of the model.                                                    *)
(***************************************************************************)
RayDigits == 1
WadDigits == 1
UintBits  == 24
MaxAmount == 2
MaxSupply == 3
MaxScaled == 6

ZERO  == "0x0"
POOL  == "pool"
ADMIN == "u1"
Users == {"u1", "u2"}
Addresses == Users \cup {ZERO}

(***************************************************************************)
(* Math.sol                                                                *)
(***************************************************************************)
WAD      == 10 ^ WadDigits
HALF_WAD == WAD \div 2
RAY      == 10 ^ RayDigits
HALF_RAY == RAY \div 2
MAX_UINT == 2 ^ UintBits - 1
REVERT   == -1

Min(a, b) == IF a < b THEN a ELSE b

wadMul(a, b) ==
  IF a = 0 \/ b = 0 THEN 0
  ELSE IF a > (MAX_UINT - HALF_WAD) \div b THEN REVERT
  ELSE (a * b + HALF_WAD) \div WAD

wadDiv(a, b) ==
  IF b = 0 THEN REVERT
  ELSE IF a > (MAX_UINT - b \div 2) \div WAD THEN REVERT
  ELSE (a * WAD + b \div 2) \div b

rayMul(a, b) ==
  IF a = 0 \/ b = 0 THEN 0
  ELSE IF a > (MAX_UINT - HALF_RAY) \div b THEN REVERT
  ELSE (a * b + HALF_RAY) \div RAY

\* rayDiv without the half divisor added: the quotient is rounded down.
rayDivTruncating(a, b) ==
  IF b = 0 THEN REVERT
  ELSE IF a > (MAX_UINT - b \div 2) \div RAY THEN REVERT
  ELSE (a * RAY) \div b

rayDiv(a, b) ==
  IF b = 0 THEN REVERT
  ELSE IF a > (MAX_UINT - b \div 2) \div RAY THEN REVERT
  ELSE (a * RAY + b \div 2) \div b

percentMul(amount, percentage) ==
  IF amount = 0 \/ percentage = 0 THEN 0
  ELSE IF amount > (MAX_UINT - HALF_WAD) \div percentage THEN REVERT
  ELSE (amount * percentage + HALF_WAD) \div WAD

\* percentMulBps truncating, not rounding half up.
percentMulBpsTruncating(amount, bps) ==
  IF amount = 0 \/ bps = 0 THEN 0
  ELSE IF amount > (MAX_UINT - 5000) \div bps THEN REVERT
  ELSE (amount * bps) \div 10000

percentMulBps(amount, bps) ==
  IF amount = 0 \/ bps = 0 THEN 0
  ELSE IF amount > (MAX_UINT - 5000) \div bps THEN REVERT
  ELSE (amount * bps + 5000) \div 10000

\* The loop of rayPow: "for (n /= 2; n != 0; n /= 2) { x = rayMul(x, x);
\* if (n % 2 != 0) z = rayMul(z, x); }", n being the halved exponent.
RECURSIVE rayPowLoop(_, _, _)
rayPowLoop(x, n, z) ==
  IF n = 0 THEN z
  ELSE LET xx == rayMul(x, x) IN
       IF xx = REVERT THEN REVERT
       ELSE IF n % 2 # 0
         THEN LET zz == rayMul(z, xx) IN
              IF zz = REVERT THEN REVERT ELSE rayPowLoop(xx, n \div 2, zz)
         ELSE rayPowLoop(xx, n \div 2, z)

rayPow(x, n) == rayPowLoop(x, n \div 2, IF n % 2 # 0 THEN x ELSE RAY)

compoundInterest(principal, rate, time) ==
  IF principal = 0 \/ rate = 0 \/ time = 0 THEN principal
  ELSE LET ratePerPeriod == rayDiv(rate, RAY) IN
       IF ratePerPeriod = REVERT THEN REVERT
       ELSE LET compoundFactor == rayPow(ratePerPeriod, time) IN
            IF compoundFactor = REVERT THEN REVERT
            ELSE rayMul(principal, compoundFactor)

(***************************************************************************)
(* aToken.sol                                                              *)
(***************************************************************************)
\* Arguments the callers of the aToken are drawn from.
TokenCallers == {POOL, "u2"}
AmountArgs   == (0 .. MaxAmount) \cup {MAX_UINT}
IndexArgs    == {0, HALF_RAY, RAY, RAY + HALF_RAY, 2 * RAY}

\* MINTER_ROLE and BURNER_ROLE are granted to the lending pool (initialize).
hasMinterRole(caller) == caller = POOL
hasBurnerRole(caller) == caller = POOL
\* PAUSER_ROLE and DEFAULT_ADMIN_ROLE are granted to the deployer.
hasPauserRole(caller) == caller = ADMIN

\* The outcome of a call: a call that fails reports nothing else; a mint, a
\* burn or an index update that goes through reports its arguments, as its
\* event does (Mint, Burn, LiquidityIndexUpdated with the old index).
TokenResult(op, ok) ==
  [op |-> op, ok |-> ok, user |-> ZERO, amount |-> 0, index |-> 0,
   before |-> <<0, 0, 0, 0>>, indexEvent |-> <<>>]

\* event LiquidityIndexUpdated(oldIndex, newIndex, timestamp), without the
\* timestamp; <<>> when a call emits none.
LiquidityIndexUpdated(oldIndex, newIndex) == <<oldIndex, newIndex>>

TokenInit ==
  /\ liquidityIndex = RAY
  /\ scaledTotalSupply = 0
  /\ scaledBalanceOf = [u \in Users |-> 0]
  /\ balanceOf = [u \in Users |-> 0]
  /\ totalSupply = 0
  /\ tokenPaused = FALSE
  /\ tokenCall = TokenResult("initialize", TRUE)

balanceOfUnderlying(user) == rayMul(scaledBalanceOf[user], liquidityIndex)

\* What the views return for a user when a call starts: scaledBalanceOf,
\* scaledTotalSupply, balanceOfUnderlying, getLiquidityIndex.
Holdings(user) ==
  <<scaledBalanceOf[user], scaledTotalSupply, balanceOfUnderlying(user),
    liquidityIndex>>

TokenEvent(op, user, amount, index, before) ==
  [TokenResult(op, TRUE) EXCEPT !.user = user, !.amount = amount,
                                !.index = index, !.before = before]

\* The index stored by mint and burn: "if (index != liquidityIndex) liquidityIndex = index".
IndexAfterCall(index) == IF index # liquidityIndex THEN index ELSE liquidityIndex

\* The event of mint and burn is emitted after the index is stored:
\* "liquidityIndex = index; emit LiquidityIndexUpdated(liquidityIndex, index, ...)"
\* reads the field it has just written.
IndexEventOfCall(index) ==
  IF index # liquidityIndex
    THEN LiquidityIndexUpdated(IndexAfterCall(index), index)
    ELSE <<>>

\* ERC20 _mint through _beforeTokenTransfer (whenNotPaused), checked arithmetic.
ERC20MintOk(amount) == ~tokenPaused /\ totalSupply + amount <= MAX_UINT
\* ERC20 _burn: the account must hold the amount.
ERC20BurnOk(user, amount) == ~tokenPaused /\ balanceOf[user] >= amount

MintOk(caller, user, amount, index) ==
  /\ hasMinterRole(caller)
  /\ user # ZERO
  /\ amount > 0
  /\ rayDiv(amount, index) # REVERT
  /\ scaledBalanceOf[user] + rayDiv(amount, index) <= MAX_UINT
  /\ scaledTotalSupply + rayDiv(amount, index) <= MAX_UINT
  /\ ERC20MintOk(amount)

\* mint with the update of the total left out.
MintScaledTotalNotUpdated(amount, index) == scaledTotalSupply

MintScaledTotal(amount, index) == scaledTotalSupply + rayDiv(amount, index)

MintEffect(user, amount, index) ==
  /\ liquidityIndex' = IndexAfterCall(index)
  /\ scaledBalanceOf' =
       [scaledBalanceOf EXCEPT ![user] = @ + rayDiv(amount, index)]
  /\ scaledTotalSupply' = MintScaledTotal(amount, index)
  /\ balanceOf' = [balanceOf EXCEPT ![user] = @ + amount]
  /\ totalSupply' = totalSupply + amount
  /\ UNCHANGED tokenPaused

mint(caller, user, amount, index) ==
  /\ IF MintOk(caller, user, amount, index)
       THEN MintEffect(user, amount, index)
       ELSE UNCHANGED <<liquidityIndex, scaledTotalSupply, scaledBalanceOf,
                        balanceOf, totalSupply, tokenPaused>>
  /\ tokenCall' = IF MintOk(caller, user, amount, index)
                     THEN [TokenEvent("mint", user, amount, index, Holdings(user))
                             EXCEPT !.indexEvent = IndexEventOfCall(index)]
                     ELSE TokenResult("mint", FALSE)
  /\ UNCHANGED <<poolVars, mathCall, oracle>>

\* burn comparing the ERC20 balance with the amount, not the scaled values.
BurnOkRealUnits(caller, user, amount, index) ==
  /\ hasBurnerRole(caller)
  /\ user # ZERO
  /\ amount > 0
  /\ rayDiv(amount, index) # REVERT
  /\ ERC20BurnOk(user, amount)

BurnOk(caller, user, amount, index) ==
  /\ hasBurnerRole(caller)
  /\ user # ZERO
  /\ amount > 0
  /\ rayDiv(amount, index) # REVERT
  /\ scaledBalanceOf[user] >= rayDiv(amount, index)
  /\ ERC20BurnOk(user, amount)

\* burn taking the amount itself, not its scaled value, off the scaled balance.
BurnEffectUnscaled(user, amount, index) ==
  /\ liquidityIndex' = IndexAfterCall(index)
  /\ scaledBalanceOf' = [scaledBalanceOf EXCEPT ![user] = @ - amount]
  /\ scaledTotalSupply' = scaledTotalSupply - amount
  /\ balanceOf' = [balanceOf EXCEPT ![user] = @ - amount]
  /\ totalSupply' = totalSupply - amount
  /\ UNCHANGED tokenPaused

BurnEffect(user, amount, index) ==
  /\ liquidityIndex' = IndexAfterCall(index)
  /\ scaledBalanceOf' =
       [scaledBalanceOf EXCEPT ![user] = @ - rayDiv(amount, index)]
  /\ scaledTotalSupply' = scaledTotalSupply - rayDiv(amount, index)
  /\ balanceOf' = [balanceOf EXCEPT ![user] = @ - amount]
  /\ totalSupply' = totalSupply - amount
  /\ UNCHANGED tokenPaused

burn(caller, user, amount, index) ==
  /\ IF BurnOk(caller, user, amount, index)
       THEN BurnEffect(user, amount, index)
       ELSE UNCHANGED <<liquidityIndex, scaledTotalSupply, scaledBalanceOf,
                        balanceOf, totalSupply, tokenPaused>>
  /\ tokenCall' = IF BurnOk(caller, user, amount, index)
                     THEN [TokenEvent("burn", user, amount, index, <<0, 0, 0, 0>>)
                             EXCEPT !.indexEvent = IndexEventOfCall(index)]
                     ELSE TokenResult("burn", FALSE)
  /\ UNCHANGED <<poolVars, mathCall, oracle>>

\* updateLiquidityIndex with the require on the new index left out.
UpdateIndexOkAnyIndex(caller, newIndex) == caller = POOL

UpdateIndexOk(caller, newIndex) ==
  /\ caller = POOL
  /\ newIndex >= liquidityIndex

updateLiquidityIndex(caller, newIndex) ==
  /\ liquidityIndex' =
       IF UpdateIndexOk(caller, newIndex) THEN newIndex ELSE liquidityIndex
  /\ tokenCall' = IF UpdateIndexOk(caller, newIndex)
                     THEN [TokenEvent("updateLiquidityIndex", ZERO, 0, newIndex,
                                      <<0, 0, 0, liquidityIndex>>)
                             EXCEPT !.indexEvent =
                               LiquidityIndexUpdated(liquidityIndex, newIndex)]
                     ELSE TokenResult("updateLiquidityIndex", FALSE)
  /\ UNCHANGED <<scaledTotalSupply, scaledBalanceOf, balanceOf, totalSupply,
                 tokenPaused>>
  /\ UNCHANGED <<poolVars, mathCall, oracle>>

\* The inherited ERC20 transfer: moves token balances, not scaled balances.
TransferOk(from, to, amount) ==
  /\ to # ZERO
  /\ ~tokenPaused
  /\ balanceOf[from] >= amount

transfer(from, to, amount) ==
  /\ balanceOf' =
       IF TransferOk(from, to, amount)
         THEN [u \in Users |->
                 balanceOf[u] - (IF u = from THEN amount ELSE 0)
                              + (IF u = to THEN amount ELSE 0)]
         ELSE balanceOf
  /\ tokenCall' = TokenResult("transfer", TransferOk(from, to, amount))
  /\ UNCHANGED <<liquidityIndex, scaledTotalSupply, scaledBalanceOf, totalSupply,
                 tokenPaused>>
  /\ UNCHANGED <<poolVars, mathCall, oracle>>

\* pause() / unpause() of the aToken: onlyPauser, then Pausable's own guard.
tokenPause(caller) ==
  /\ tokenPaused' = IF hasPauserRole(caller) /\ ~tokenPaused THEN TRUE ELSE tokenPaused
  /\ tokenCall' = TokenResult("pause", hasPauserRole(caller) /\ ~tokenPaused)
  /\ UNCHANGED <<liquidityIndex, scaledTotalSupply, scaledBalanceOf, balanceOf,
                 totalSupply>>
  /\ UNCHANGED <<poolVars, mathCall, oracle>>

tokenUnpause(caller) ==
  /\ tokenPaused' = IF hasPauserRole(caller) /\ tokenPaused THEN FALSE ELSE tokenPaused
  /\ tokenCall' = TokenResult("unpause", hasPauserRole(caller) /\ tokenPaused)
  /\ UNCHANGED <<liquidityIndex, scaledTotalSupply, scaledBalanceOf, balanceOf,
                 totalSupply>>
  /\ UNCHANGED <<poolVars, mathCall, oracle>>

\* The model stops minting at MaxSupply tokens and MaxScaled scaled units.
MintWithinBounds(caller, user, amount, index) ==
  MintOk(caller, user, amount, index) =>
    /\ totalSupply + amount <= MaxSupply
    /\ scaledTotalSupply + rayDiv(amount, index) <= MaxScaled

TokenNext ==
  \/ \E c \in TokenCallers, u \in Addresses, a \in AmountArgs, i \in IndexArgs :
       MintWithinBounds(c, u, a, i) /\ mint(c, u, a, i)
  \/ \E c \in TokenCallers, u \in Addresses, a \in AmountArgs, i \in IndexArgs :
       burn(c, u, a, i)
  \/ \E c \in TokenCallers, i \in IndexArgs : updateLiquidityIndex(c, i)
  \/ \E f \in Users, t \in Addresses, a \in 0 .. MaxAmount : transfer(f, t, a)
  \/ \E c \in Users : tokenPause(c)
  \/ \E c \in Users : tokenUnpause(c)


(***************************************************************************)
(* LendingPool (unnamed/part_008)                                          *)
(***************************************************************************)
MaxPay        == 1
InitialWallet == 1
MaxLedger     == 1
MaxFlashLen   == 1

ETH    == ZERO      \* the native asset is asset == address(0)
TKN    == "tkn"
Assets == {ETH, TKN}

PayArgs      == 0 .. MaxPay
ModeArgs     == {0, 1, 2}
CategoryArgs == {0, 1}
FlashAmounts == {1000}
FlashModes   == {0, 2}
SeqsUpTo(S, n) == UNION {[1 .. k -> S] : k \in 0 .. n}

FLASHLOAN_PREMIUM_TOTAL == 9
LIQUIDATION_THRESHOLD   == 8500

NoCall == [op |-> "none"]

Max(a, b) == IF a > b THEN a ELSE b

\* calculateHealthFactor reporting 0 for a position without debt.
calculateHealthFactorNoMax(collateralValue, borrowValue, liquidationThreshold) ==
  LET thresholdValue == percentMulBps(collateralValue, liquidationThreshold) IN
  IF borrowValue = 0 THEN 0
  ELSE IF thresholdValue = REVERT THEN REVERT
  ELSE rayDiv(thresholdValue, borrowValue)

\* Math.calculateHealthFactor
calculateHealthFactor(collateralValue, borrowValue, liquidationThreshold) ==
  LET thresholdValue == percentMulBps(collateralValue, liquidationThreshold) IN
  IF borrowValue = 0 THEN MAX_UINT
  ELSE IF thresholdValue = REVERT THEN REVERT
  ELSE rayDiv(thresholdValue, borrowValue)

\* Storage after initialize(priceOracle, admin): no reserve is active; wallet
\* is what the users hold of each asset outside the pool.
PoolStorage(guardian, funds) ==
  [ reserveId     |-> [a \in Assets |-> 0],
    reservesCount |-> 0,
    usersConfig   |-> [u \in Users |-> {}],
    usersEMode    |-> [u \in Users |-> 0],
    paused        |-> FALSE,
    pauseGuardian |-> guardian,
    admin         |-> ADMIN,
    status        |-> "NOT_ENTERED",
    cash          |-> [a \in Assets |-> 0],
    wallet        |-> funds,
    supplyOf      |-> [u \in Users |-> [a \in Assets |-> 0]],
    debtOf        |-> [u \in Users |-> [a \in Assets |-> 0]] ]

\* debtAsset is the second asset of a liquidationCall, loans the list a
\* flashLoan was called with.
Outcome(op, err, nested, asset, who, amount, ret) ==
  [op |-> op, ok |-> err = "", err |-> err, nested |-> nested,
   asset |-> asset, who |-> who, amount |-> amount, ret |-> ret,
   debtAsset |-> ZERO, loans |-> <<>>]

\* A call that reverts reports its error and nothing else.
Result(op, err, asset, who, amount, ret) ==
  IF err = "" THEN Outcome(op, err, executing # NoCall, asset, who, amount, ret)
  ELSE Outcome(op, err, executing # NoCall, ZERO, ZERO, 0, 0)

\* The users hold the ERC20 asset only, or one user holds the native asset only.
FundsTKN == [u \in Users |-> [a \in Assets |-> IF a = TKN THEN InitialWallet ELSE 0]]
FundsETH == [u \in Users |->
               [a \in Assets |-> IF a = ETH /\ u # ADMIN THEN InitialWallet ELSE 0]]

\* No library call has been made.
NoMath == [fn |-> "none", args |-> <<0, 0, 0>>, user |-> ZERO, ret |-> 0]

PoolInit(guardian, funds) ==
  /\ pool = PoolStorage(guardian, funds)
  /\ executing = NoCall
  /\ lastCall = Outcome("initialize", "", FALSE, ZERO, ADMIN, 0, 0)

\* The first failing require of a call, "" when none fails.
Require(cond, msg) == IF cond THEN "" ELSE msg
RECURSIVE FirstErr(_)
FirstErr(errs) ==
  IF errs = <<>> THEN ""
  ELSE IF Head(errs) # "" THEN Head(errs)
  ELSE FirstErr(Tail(errs))

nonReentrant  == Require(pool.status # "ENTERED", "ReentrancyGuard: reentrant call")

\* The modifier with its require left out.
whenNotPausedUnchecked == ""

whenNotPaused == Require(~pool.paused, "Pausable: paused")
whenPaused    == Require(pool.paused, "Pausable: not paused")
\* The check of the reserve id left out.
reserveActiveUnchecked(asset) == ""
reserveActive(asset) ==
  Require(pool.reserveId[asset] # 0, "LendingPool: reserve not active")
onlyAdmin(c) == Require(c = pool.admin, "LendingPool: caller is not admin")
\* The modifier letting any caller through.
onlyPauseGuardianAnyCaller(c) == ""
onlyPauseGuardian(c) ==
  Require(c = pool.pauseGuardian, "LendingPool: caller is not pause guardian")

\* While a call is suspended in its ETH transfer only the receiver runs.
MayCall(c) == IF executing = NoCall THEN TRUE ELSE c = executing.receiver

\* The internal functions of part_008:516-581.
burnATokens(asset, user, amount)              == amount
burnDebtTokens(asset, user, amount, rateMode) == amount
validateBorrow(asset, user, amount, mode)     == ""
validateLiquidationCall(collateralAsset, debtAsset, user, debtToCover) == ""
getUserAccountData(user) == <<0, 0, 0, 0, 0, 0>>

\* Positions as the Deposit / Withdraw / Borrow / Repay events report them.
Supplied(p, user, asset, amount)  == [p EXCEPT !.supplyOf[user][asset] = @ + amount]
Withdrawn(p, user, asset, amount) ==
  [p EXCEPT !.supplyOf[user][asset] = Max(0, @ - amount)]
Borrowed(p, user, asset, amount)  == [p EXCEPT !.debtOf[user][asset] = @ + amount]
Repaid(p, user, asset, amount)    ==
  [p EXCEPT !.debtOf[user][asset] = Max(0, @ - amount)]

TransferIn(p, from, asset, amount) ==
  [p EXCEPT !.wallet[from][asset] = @ - amount, !.cash[asset] = @ + amount]
TransferOut(p, to, asset, amount) ==
  [p EXCEPT !.cash[asset] = @ - amount, !.wallet[to][asset] = @ + amount]

\* deposit with the require on the amount left out.
depositErrAnyAmount(c, asset, amount, onBehalfOf) ==
  FirstErr(<< nonReentrant, whenNotPaused,
              Require(onBehalfOf # ZERO, "LendingPool: onBehalfOf cannot be zero"),
              reserveActive(asset),
              Require(pool.wallet[c][asset] >= amount, "transfer in failed") >>)

(* deposit, part_008:131-162 *)
depositErr(c, asset, amount, onBehalfOf) ==
  FirstErr(<< nonReentrant, whenNotPaused,
              Require(amount # 0, "LendingPool: amount must be greater than 0"),
              Require(onBehalfOf # ZERO, "LendingPool: onBehalfOf cannot be zero"),
              reserveActive(asset),
              Require(pool.wallet[c][asset] >= amount, "transfer in failed") >>)

deposit(c, asset, amount, onBehalfOf) ==
  LET err == depositErr(c, asset, amount, onBehalfOf) IN
  /\ MayCall(c)
  /\ err = "" => pool.supplyOf[onBehalfOf][asset] + amount <= MaxLedger
  /\ pool' = IF err = ""
               THEN Supplied(TransferIn(pool, c, asset, amount), onBehalfOf, asset, amount)
               ELSE pool
  /\ lastCall' = Result("deposit", err, asset, onBehalfOf, amount, 0)
  /\ UNCHANGED <<executing, tokenVars, mathCall, oracle>>

(* The ETH transfer of withdraw and borrow: "to.call{value: amount}("")"     *)
(* runs the receiver's code while the call is still executing.             *)
Suspend(op, c, asset, amount, receiver) ==
  /\ pool' = [TransferOut(pool, receiver, asset, amount) EXCEPT !.status = "ENTERED"]
  /\ executing' = [op |-> op, caller |-> c, asset |-> asset, amount |-> amount,
                   receiver |-> receiver, saved |-> pool]
  /\ lastCall' = Result("call{value}", "", asset, receiver, amount, 0)

\* withdraw with the transfer out of the pool never failing.
withdrawErrCashUnchecked(c, asset, amount, to) ==
  FirstErr(<< nonReentrant, whenNotPaused,
              Require(amount # 0, "LendingPool: amount must be greater than 0"),
              Require(to # ZERO, "LendingPool: to cannot be zero"),
              reserveActive(asset) >>)

(* withdraw, part_008:167-199 *)
withdrawErr(c, asset, amount, to) ==
  FirstErr(<< nonReentrant, whenNotPaused,
              Require(amount # 0, "LendingPool: amount must be greater than 0"),
              Require(to # ZERO, "LendingPool: to cannot be zero"),
              reserveActive(asset),
              Require(pool.cash[asset] >= burnATokens(asset, c, amount),
                      "transfer out failed") >>)

withdraw(c, asset, amount, to) ==
  LET err == withdrawErr(c, asset, amount, to)
      amountToWithdraw == burnATokens(asset, c, amount) IN
  /\ MayCall(c)
  /\ IF err = "" /\ asset = ETH
       THEN Suspend("withdraw", c, asset, amountToWithdraw, to)
       ELSE /\ pool' = IF err = ""
                         THEN Withdrawn(TransferOut(pool, to, asset, amountToWithdraw),
                                        c, asset, amountToWithdraw)
                         ELSE pool
            /\ lastCall' = Result("withdraw", err, asset, c, amount, amountToWithdraw)
            /\ UNCHANGED executing
  /\ UNCHANGED <<tokenVars, mathCall, oracle>>

(* borrow, part_008:204-241 *)
borrowErr(c, asset, amount, mode, onBehalfOf) ==
  FirstErr(<< nonReentrant, whenNotPaused,
              Require(amount # 0, "LendingPool: amount must be greater than 0"),
              Require(onBehalfOf # ZERO, "LendingPool: onBehalfOf cannot be zero"),
              Require(mode = 1 \/ mode = 2, "LendingPool: invalid interest rate mode"),
              reserveActive(asset),
              validateBorrow(asset, onBehalfOf, amount, mode),
              Require(pool.cash[asset] >= amount, "transfer out failed") >>)

borrow(c, asset, amount, mode, onBehalfOf) ==
  LET err == borrowErr(c, asset, amount, mode, onBehalfOf) IN
  /\ MayCall(c)
  /\ err = "" => pool.debtOf[onBehalfOf][asset] + amount <= MaxLedger
  /\ IF err = "" /\ asset = ETH
       THEN Suspend("borrow", c, asset, amount, onBehalfOf)
       ELSE /\ pool' = IF err = ""
                         THEN Borrowed(TransferOut(pool, onBehalfOf, asset, amount),
                                       onBehalfOf, asset, amount)
                         ELSE pool
            /\ lastCall' = Result("borrow", err, asset, onBehalfOf, amount, 0)
            /\ UNCHANGED executing
  /\ UNCHANGED <<tokenVars, mathCall, oracle>>

(* The receiver's code returns (success) or reverts (the whole call reverts). *)
Completed(p, call) ==
  IF call.op = "withdraw"
    THEN Withdrawn(p, call.caller, call.asset, call.amount)
    ELSE Borrowed(p, call.receiver, call.asset, call.amount)

receiverReturns(success) ==
  /\ executing # NoCall
  /\ pool' = IF success
               THEN [Completed(pool, executing) EXCEPT !.status = "NOT_ENTERED"]
               ELSE executing.saved
  /\ lastCall' =
       Outcome(executing.op,
               IF success THEN "" ELSE "LendingPool: ETH transfer failed",
               FALSE, executing.asset,
               IF executing.op = "withdraw" THEN executing.caller ELSE executing.receiver,
               executing.amount,
               IF success /\ executing.op = "withdraw" THEN executing.amount ELSE 0)
  /\ executing' = NoCall
  /\ UNCHANGED <<tokenVars, mathCall, oracle>>

(* repay, part_008:246-279 *)
repayErr(c, asset, amount, rateMode, onBehalfOf) ==
  FirstErr(<< nonReentrant, whenNotPaused,
              Require(amount # 0, "LendingPool: amount must be greater than 0"),
              Require(onBehalfOf # ZERO, "LendingPool: onBehalfOf cannot be zero"),
              Require(rateMode = 1 \/ rateMode = 2, "LendingPool: invalid rate mode"),
              reserveActive(asset),
              Require(pool.wallet[c][asset] >= amount, "transfer in failed") >>)

repay(c, asset, amount, rateMode, onBehalfOf) ==
  LET err == repayErr(c, asset, amount, rateMode, onBehalfOf)
      amountRepaid == burnDebtTokens(asset, onBehalfOf, amount, rateMode) IN
  /\ MayCall(c)
  /\ pool' = IF err = ""
               THEN Repaid(TransferIn(pool, c, asset, amount), onBehalfOf, asset, amountRepaid)
               ELSE pool
  /\ lastCall' = Result("repay", err, asset, onBehalfOf, amount, amountRepaid)
  /\ UNCHANGED <<executing, tokenVars, mathCall, oracle>>


(* swapBorrowRateMode, part_008:284-300 *)
swapBorrowRateModeErr(c, asset, rateMode) ==
  FirstErr(<< nonReentrant, whenNotPaused,
              Require(rateMode = 1 \/ rateMode = 2, "LendingPool: invalid rate mode"),
              reserveActive(asset) >>)

swapBorrowRateMode(c, asset, rateMode) ==
  /\ MayCall(c)
  /\ lastCall' = Result("swapBorrowRateMode", swapBorrowRateModeErr(c, asset, rateMode),
                        asset, c, 0, 0)
  /\ UNCHANGED <<pool, executing, tokenVars, mathCall, oracle>>

(* rebalanceStableBorrowRate, part_008:305-319 *)
rebalanceStableBorrowRateErr(c, asset, user) ==
  FirstErr(<< nonReentrant, whenNotPaused, reserveActive(asset) >>)

rebalanceStableBorrowRate(c, asset, user) ==
  /\ MayCall(c)
  /\ lastCall' = Result("rebalanceStableBorrowRate",
                        rebalanceStableBorrowRateErr(c, asset, user), asset, user, 0, 0)
  /\ UNCHANGED <<pool, executing, tokenVars, mathCall, oracle>>

(* setUserUseReserveAsCollateral, part_008:324-337 *)
setUserUseReserveAsCollateralErr(c, asset, useAsCollateral) ==
  FirstErr(<< whenNotPaused, reserveActive(asset) >>)

\* userConfig.data with bit (reserve.id * 2) set or cleared.
CollateralBit(asset) == pool.reserveId[asset] * 2
\* The update writing the whole word instead of one bit of it.
ConfigAfterWholeWord(data, asset, useAsCollateral) ==
  IF useAsCollateral THEN {CollateralBit(asset)} ELSE {}
ConfigAfter(data, asset, useAsCollateral) ==
  IF useAsCollateral THEN data \cup {CollateralBit(asset)}
  ELSE data \ {CollateralBit(asset)}

setUserUseReserveAsCollateral(c, asset, useAsCollateral) ==
  LET err == setUserUseReserveAsCollateralErr(c, asset, useAsCollateral) IN
  /\ MayCall(c)
  /\ pool' = IF err = ""
               THEN [pool EXCEPT !.usersConfig[c] = ConfigAfter(@, asset, useAsCollateral)]
               ELSE pool
  /\ lastCall' = Result("setUserUseReserveAsCollateral", err, asset, c, 0, 0)
  /\ UNCHANGED <<executing, tokenVars, mathCall, oracle>>

(* liquidationCall, part_008:342-368 *)
liquidationCallErr(c, collateralAsset, debtAsset, user, debtToCover) ==
  FirstErr(<< nonReentrant, whenNotPaused,
              Require(collateralAsset # debtAsset,
                      "LendingPool: collateral and debt must be different"),
              Require(user # ZERO, "LendingPool: user cannot be zero"),
              Require(debtToCover # 0, "LendingPool: debt to cover must be greater than 0"),
              Require(pool.reserveId[collateralAsset] # 0,
                      "LendingPool: collateral reserve not active"),
              Require(pool.reserveId[debtAsset] # 0, "LendingPool: debt reserve not active"),
              validateLiquidationCall(collateralAsset, debtAsset, user, debtToCover) >>)

\* _executeLiquidation is empty: a liquidationCall that passes moves nothing.
liquidationCall(c, collateralAsset, debtAsset, user, debtToCover, receiveAToken) ==
  /\ MayCall(c)
  /\ lastCall' =
       LET err == liquidationCallErr(c, collateralAsset, debtAsset, user, debtToCover)
           res == Result("liquidationCall", err, collateralAsset, user, debtToCover, 0)
       IN IF err = "" THEN [res EXCEPT !.debtAsset = debtAsset] ELSE res
  /\ UNCHANGED <<pool, executing, tokenVars, mathCall, oracle>>

(* flashLoan, part_008:373-388 *)
flashLoanErr(c, receiverAddress, assets, amounts, modes) ==
  FirstErr(<< nonReentrant, whenNotPaused,
              Require(receiverAddress # ZERO, "LendingPool: receiver cannot be zero"),
              Require(Len(assets) = Len(amounts),
                      "LendingPool: assets and amounts length mismatch"),
              Require(Len(assets) = Len(modes),
                      "LendingPool: assets and modes length mismatch") >>)

\* _executeFlashLoan is empty: nothing is lent, called back or collected.
flashLoan(c, receiverAddress, assets, amounts, modes, onBehalfOf) ==
  /\ MayCall(c)
  /\ lastCall' =
       LET err == flashLoanErr(c, receiverAddress, assets, amounts, modes)
           res == Result("flashLoan", err, ZERO, onBehalfOf, 0, 0)
       IN IF err = ""
            THEN [res EXCEPT !.loans = [i \in DOMAIN assets |->
                                          [asset |-> assets[i], amount |-> amounts[i],
                                           mode |-> modes[i]]]]
            ELSE res
  /\ UNCHANGED <<pool, executing, tokenVars, mathCall, oracle>>

(* setUserEMode, part_008:393-398 *)
setUserEModeErr(c, categoryId) ==
  FirstErr(<< whenNotPaused,
              Require(categoryId <= 255, "LendingPool: invalid category id") >>)

setUserEMode(c, categoryId) ==
  LET err == setUserEModeErr(c, categoryId) IN
  /\ MayCall(c)
  /\ pool' = IF err = "" THEN [pool EXCEPT !.usersEMode[c] = categoryId] ELSE pool
  /\ lastCall' = Result("setUserEMode", err, ZERO, c, categoryId, 0)
  /\ UNCHANGED <<executing, tokenVars, mathCall, oracle>>

(* pause / unpause, part_008:587-593 *)
pauseErr(c)   == FirstErr(<< onlyPauseGuardian(c), whenNotPaused >>)
unpauseErr(c) == FirstErr(<< onlyPauseGuardian(c), whenPaused >>)

pause(c) ==
  /\ MayCall(c)
  /\ pool' = IF pauseErr(c) = "" THEN [pool EXCEPT !.paused = TRUE] ELSE pool
  /\ lastCall' = Result("pause", pauseErr(c), ZERO, c, 0, 0)
  /\ UNCHANGED <<executing, tokenVars, mathCall, oracle>>

unpause(c) ==
  /\ MayCall(c)
  /\ pool' = IF unpauseErr(c) = "" THEN [pool EXCEPT !.paused = FALSE] ELSE pool
  /\ lastCall' = Result("unpause", unpauseErr(c), ZERO, c, 0, 0)
  /\ UNCHANGED <<executing, tokenVars, mathCall, oracle>>

(* rescueTokens, part_008:595-599; address(0) is no token contract *)
rescueTokensErr(c, token, to, amount) ==
  FirstErr(<< onlyAdmin(c),
              Require(to # ZERO, "LendingPool: to cannot be zero"),
              Require(token # ETH, "Address: call to non-contract"),
              Require(pool.cash[token] >= amount, "transfer out failed") >>)

rescueTokens(c, token, to, amount) ==
  LET err == rescueTokensErr(c, token, to, amount) IN
  /\ MayCall(c)
  /\ pool' = IF err = "" THEN TransferOut(pool, to, token, amount) ELSE pool
  /\ lastCall' = Result("rescueTokens", err, token, to, amount, 0)
  /\ UNCHANGED <<executing, tokenVars, mathCall, oracle>>

(* initializeReserve: called by scripts/deploy.js:128, body not in the      *)
(* sources; admin only, rejects a duplicate asset, ids start at 1.         *)
initializeReserveErr(c, asset) ==
  FirstErr(<< onlyAdmin(c),
              Require(pool.reserveId[asset] = 0, "LendingPool: reserve already active") >>)

initializeReserve(c, asset) ==
  LET err == initializeReserveErr(c, asset) IN
  /\ MayCall(c)
  /\ pool' = IF err = ""
               THEN [pool EXCEPT !.reserveId[asset] = pool.reservesCount + 1,
                                 !.reservesCount = @ + 1]
               ELSE pool
  /\ lastCall' = Result("initializeReserve", err, asset, c, 0, 0)
  /\ UNCHANGED <<executing, tokenVars, mathCall, oracle>>

(* receive, part_008:602-604: ETH sent to the pool by a contract is kept;   *)
(* no event and no position records it.                                    *)
receiveErr(c, fromContract) ==
  Require(fromContract, "LendingPool: only contracts can send ETH")

receive(c, amount, fromContract) ==
  LET err == receiveErr(c, fromContract) IN
  /\ MayCall(c)
  /\ amount > 0
  /\ pool.wallet[c][ETH] >= amount
  /\ pool' = IF err = "" THEN TransferIn(pool, c, ETH, amount) ELSE pool
  /\ lastCall' = Result("receive", err, ETH, c, amount, 0)
  /\ UNCHANGED <<executing, tokenVars, mathCall, oracle>>

\* The calls the accounts in Callers can make; address arguments are the
\* callers and the zero address.
LedgerCalls(Callers) ==
  \/ \E c \in Callers, a \in Assets, n \in PayArgs, o \in Callers \cup {ZERO} :
       deposit(c, a, n, o)
  \/ \E c \in Callers, a \in Assets, n \in PayArgs, t \in Callers \cup {ZERO} :
       withdraw(c, a, n, t)
  \/ \E c \in Callers, a \in Assets, n \in PayArgs, m \in ModeArgs,
        o \in Callers \cup {ZERO} : borrow(c, a, n, m, o)
  \/ \E c \in Callers, a \in Assets, n \in PayArgs, m \in ModeArgs,
        o \in Callers \cup {ZERO} : repay(c, a, n, m, o)
  \/ \E c \in Callers, a \in Assets, m \in ModeArgs : swapBorrowRateMode(c, a, m)
  \/ \E c \in Callers, a \in Assets, u \in Callers : rebalanceStableBorrowRate(c, a, u)
  \/ \E c \in Callers, a \in Assets, b \in Assets, u \in Callers \cup {ZERO},
        n \in PayArgs : liquidationCall(c, a, b, u, n, FALSE)
  \/ \E c \in Callers, z \in BOOLEAN, as \in SeqsUpTo(Assets, MaxFlashLen),
        ns \in SeqsUpTo(FlashAmounts, MaxFlashLen),
        ms \in SeqsUpTo(FlashModes, MaxFlashLen) :
       flashLoan(c, IF z THEN ZERO ELSE c, as, ns, ms, c)
  \/ \E c \in Callers : pause(c)
  \/ \E c \in Callers : unpause(c)
  \/ \E c \in Callers, t \in Assets, to \in Callers \cup {ZERO}, n \in PayArgs :
       rescueTokens(c, t, to, n)

ConfigCalls(Callers) ==
  \/ \E c \in Callers, a \in Assets, f \in BOOLEAN :
       setUserUseReserveAsCollateral(c, a, f)
  \/ \E c \in Callers, k \in CategoryArgs : setUserEMode(c, k)

(***************************************************************************)
(* ChainlinkPriceOracle (contracts/oracles/ChainlinkPriceOracle.sol).      *)
(* Prices are small integers and block.timestamp counts ticks.             *)
(***************************************************************************)
MaxTime         == 3   \* block.timestamp runs from 1 to MaxTime
MaxPrice        == 2   \* answers of the feed and recorded prices
MaxHistory      == 2   \* _defaultMaxPriceHistoryLength (100 in the code)
StalenessTicks  == 1   \* _defaultStalenessThreshold (3600 s in the code)

FEED            == "feed"
PAUSE_GUARDIAN  == "u2"
defaultStalenessThreshold     == StalenessTicks
defaultMaxPriceHistoryLength  == MaxHistory

\* latestRoundData() of the aggregator: the call reverts, or it returns
\* (roundId, answer, startedAt, updatedAt, answeredInRound).
NoRound == [reverts |-> TRUE, roundId |-> 0, answer |-> 0, updatedAt |-> 0,
            answeredInRound |-> 0]
Rounds ==
  {NoRound} \cup
  [reverts : {FALSE}, roundId : {2}, answer : 0..MaxPrice,
   updatedAt : {0, 1}, answeredInRound : {1, 2}]

\* The assets the oracle is asked about: the native asset is address(0),
\* which setPriceFeed refuses, so the ERC20 asset is the one it can list.
Listed == {TKN}

NoOracleCall == [op |-> "none", ok |-> TRUE, asset |-> ZERO, period |-> 0,
                 ret |-> 0, err |-> ""]

\* initialize(admin, pauseGuardian): the mappings are empty, the oracle is
\* not paused.
OracleInit ==
  [priceFeeds           |-> [a \in Listed |-> ZERO],
   paused               |-> FALSE,
   lastPrices           |-> [a \in Listed |-> 0],
   lastUpdateTimestamps |-> [a \in Listed |-> 0],
   priceHistory         |-> [a \in Listed |-> <<>>],
   round                |-> NoRound,
   timestamp            |-> 1,
   call                 |-> NoOracleCall]

Returned(v) == [ok |-> TRUE, ret |-> v, err |-> ""]
Failed(e)   == [ok |-> FALSE, ret |-> 0, err |-> e]
PANIC       == "panic: arithmetic underflow or overflow"

OracleCalled(op, asset, period, out) ==
  [op |-> op, ok |-> out.ok, asset |-> asset, period |-> period,
   ret |-> out.ret, err |-> out.err]

\* _getChainlinkPrice(asset)
getChainlinkPrice(asset) ==
  LET r == oracle.round IN
  IF r.reverts THEN Failed("latestRoundData reverted")
  ELSE IF ~(r.answer > 0) THEN Failed("ChainlinkPriceOracle: invalid price")
  ELSE IF ~(r.updatedAt > 0) THEN Failed("ChainlinkPriceOracle: invalid timestamp")
  ELSE IF ~(r.answeredInRound >= r.roundId)
    THEN Failed("ChainlinkPriceOracle: stale price")
  ELSE Returned(r.answer)

\* isPriceStale(asset)
isPriceStale(asset) ==
  oracle.timestamp > oracle.lastUpdateTimestamps[asset] + defaultStalenessThreshold

\* getPrice(asset)
getPrice(asset) ==
  IF oracle.priceFeeds[asset] = ZERO
    THEN Failed("ChainlinkPriceOracle: price feed not found")
  ELSE IF oracle.paused THEN Failed("ChainlinkPriceOracle: oracle is paused")
  ELSE LET primary == getChainlinkPrice(asset) IN
       IF primary.ok THEN primary
       ELSE IF ~(oracle.lastPrices[asset] > 0)
         THEN Failed("ChainlinkPriceOracle: no fallback price available")
       ELSE Returned(oracle.lastPrices[asset])

\* The backward scan of getPriceChange: for (i = length - 1; i >= 0; i--),
\* on an unsigned i. The condition i >= 0 always holds, so the scan leaves
\* the loop at the break or fails in i-- at index 0.
RECURSIVE scanPriceHistory(_, _, _)
scanPriceHistory(asset, startTime, i) ==
  IF oracle.lastUpdateTimestamps[asset] <= startTime
    THEN Returned(oracle.priceHistory[asset][i + 1])
  ELSE IF i = 0 THEN Failed(PANIC)
  ELSE scanPriceHistory(asset, startTime, i - 1)

\* getPriceChange(asset, period)
getPriceChange(asset, period) ==
  IF ~(Len(oracle.priceHistory[asset]) > 0)
    THEN Failed("ChainlinkPriceOracle: no price history")
  ELSE IF period > oracle.timestamp THEN Failed(PANIC)
  ELSE LET currentPrice == oracle.lastPrices[asset]
           startTime    == oracle.timestamp - period
           found        == scanPriceHistory(asset, startTime,
                                            Len(oracle.priceHistory[asset]) - 1)
       IN
       IF ~found.ok THEN found
       ELSE LET oldPrice == found.ret IN
            IF oldPrice = 0 THEN Returned(0)
            ELSE IF currentPrice > oldPrice
              THEN Returned(((currentPrice - oldPrice) * 10000) \div oldPrice)
            ELSE Returned(-(((oldPrice - currentPrice) * 10000) \div oldPrice))

OracleUnchanged == UNCHANGED <<tokenVars, poolVars, mathCall>>

getPriceCall(asset) ==
  /\ oracle' = [oracle EXCEPT !.call = OracleCalled("getPrice", asset, 0,
                                                    getPrice(asset))]
  /\ OracleUnchanged

getPriceChangeCall(asset, period) ==
  /\ oracle' = [oracle EXCEPT !.call =
                  OracleCalled("getPriceChange", asset, period,
                               getPriceChange(asset, period))]
  /\ OracleUnchanged

\* setPriceFeed(asset, priceFeed), onlyAdmin
setPriceFeedErr(caller, asset, priceFeed) ==
  IF caller # ADMIN THEN "ChainlinkPriceOracle: caller is not admin"
  ELSE IF asset = ZERO THEN "ChainlinkPriceOracle: asset cannot be zero"
  ELSE IF priceFeed = ZERO THEN "ChainlinkPriceOracle: price feed cannot be zero"
  ELSE ""

setPriceFeed(caller, asset, priceFeed) ==
  LET e == setPriceFeedErr(caller, asset, priceFeed) IN
  /\ oracle' = IF e = ""
       THEN [oracle EXCEPT !.priceFeeds = [oracle.priceFeeds EXCEPT ![asset] = priceFeed],
                           !.call = OracleCalled("setPriceFeed", asset, 0, Returned(0))]
       ELSE [oracle EXCEPT !.call = OracleCalled("setPriceFeed", asset, 0, Failed(e))]
  /\ OracleUnchanged

\* pause() and unpause(), onlyPauseGuardian
oraclePauseErr(caller, toPause) ==
  IF caller # PAUSE_GUARDIAN
    THEN "ChainlinkPriceOracle: caller is not pause guardian"
  ELSE IF toPause /\ oracle.paused THEN "Pausable: paused"
  ELSE IF ~toPause /\ ~oracle.paused THEN "Pausable: not paused"
  ELSE ""

oraclePause(caller) ==
  LET e == oraclePauseErr(caller, TRUE) IN
  /\ oracle' = IF e = ""
       THEN [oracle EXCEPT !.paused = TRUE,
                           !.call = OracleCalled("pause", ZERO, 0, Returned(0))]
       ELSE [oracle EXCEPT !.call = OracleCalled("pause", ZERO, 0, Failed(e))]
  /\ OracleUnchanged

oracleUnpause(caller) ==
  LET e == oraclePauseErr(caller, FALSE) IN
  /\ oracle' = IF e = ""
       THEN [oracle EXCEPT !.paused = FALSE,
                           !.call = OracleCalled("unpause", ZERO, 0, Returned(0))]
       ELSE [oracle EXCEPT !.call = OracleCalled("unpause", ZERO, 0, Failed(e))]
  /\ OracleUnchanged

\* _updatePriceHistory(asset, price): the one writer of _priceHistory,
\* _lastPrices and _lastUpdateTimestamps.
updatePriceHistory(asset, price) ==
  LET h == oracle.priceHistory[asset] IN
  /\ oracle' = [oracle EXCEPT
       !.priceHistory[asset] =
          IF Len(h) >= defaultMaxPriceHistoryLength
            THEN Append(Tail(h), price)
            ELSE Append(h, price),
       !.lastPrices[asset] = price,
       !.lastUpdateTimestamps[asset] = oracle.timestamp,
       !.call = OracleCalled("_updatePriceHistory", asset, 0, Returned(0))]
  /\ OracleUnchanged

\* The aggregator starts answering latestRoundData() with r. This is no call
\* of the oracle: the record of the latest call is cleared.
feedReports(r) ==
  /\ oracle' = [oracle EXCEPT !.round = r, !.call = NoOracleCall]
  /\ OracleUnchanged

\* A block is mined: block.timestamp advances.
mineBlock ==
  /\ oracle.timestamp < MaxTime
  /\ oracle' = [oracle EXCEPT !.timestamp = oracle.timestamp + 1,
                              !.call = NoOracleCall]
  /\ OracleUnchanged

\* The calls of the deployment: the pool's entry points and initializeReserve.
\* The users hold the ERC20 asset; the two configuration setters, which write
\* only usersConfig and usersEMode, are left to SpecEth.
Init == TokenInit /\ PoolInit(ZERO, FundsTKN) /\ mathCall = NoMath
  /\ oracle = OracleInit

Next ==
  \/ LedgerCalls(Users)
  \/ \E c \in Users, a \in Assets : initializeReserve(c, a)

Spec == Init /\ [][Next]_vars

\* One user holds the native asset: withdraw and borrow suspend in the ETH
\* transfer, and the receiver may call any entry point before it returns.
EthUsers == Users \ {ADMIN}

InitEth == TokenInit /\ PoolInit(ZERO, FundsETH) /\ mathCall = NoMath
  /\ oracle = OracleInit

NextEth ==
  \/ LedgerCalls(EthUsers)
  \/ ConfigCalls(EthUsers)
  \/ \E ok \in BOOLEAN : receiverReturns(ok)
  \/ \E c \in Users : initializeReserve(c, ETH)
  \/ \E c \in EthUsers, n \in PayArgs, k \in BOOLEAN : receive(c, n, k)

SpecEth == InitEth /\ [][NextEth]_vars

\* The deployment with a pause guardian appointed.
InitGuardian == TokenInit /\ PoolInit(ADMIN, FundsTKN) /\ mathCall = NoMath
  /\ oracle = OracleInit

SpecGuardian == InitGuardian /\ [][Next]_vars

\* The aToken alone.
SpecToken == Init /\ [][TokenNext]_vars

\* The pool and its aToken side by side: one user calls the pool, and the
\* aToken is minted and burnt at the initial index.
TokenCallsAt(i) ==
  \/ \E c \in TokenCallers, u \in Addresses, a \in AmountArgs :
       MintWithinBounds(c, u, a, i) /\ mint(c, u, a, i)
  \/ \E c \in TokenCallers, u \in Addresses, a \in AmountArgs : burn(c, u, a, i)

\* The aToken with the index held at RAY: mint and burn at that index, and
\* the inherited ERC20 transfer.
NextAtRay ==
  \/ TokenCallsAt(RAY)
  \/ \E f \in Users, t \in Addresses, a \in 0 .. MaxAmount : transfer(f, t, a)

SpecAtRay == Init /\ [][NextAtRay]_vars

NextBoth ==
  \/ LedgerCalls(EthUsers)
  \/ \E c \in Users, a \in Assets : initializeReserve(c, a)
  \/ TokenCallsAt(RAY)

SpecBoth == Init /\ [][NextBoth]_vars

\* The deployment, with withdraw also called with the withdraw-all amount
\* type(uint256).max (MAX_UINT256 of the frontend, part_002:49).
NextWithdrawAll ==
  \/ Next
  \/ \E c \in Users, a \in Assets, t \in Users \cup {ZERO} :
       withdraw(c, a, MAX_UINT, t)

SpecWithdrawAll == Init /\ [][NextWithdrawAll]_vars

\* The two configuration setters on the reserves of the deployment: both
\* users call them, and the admin lists the reserves.
NextConfig ==
  \/ ConfigCalls(Users)
  \/ \E c \in Users, a \in Assets : initializeReserve(c, a)

SpecConfig == Init /\ [][NextConfig]_vars

\* The functions LendingPool declares (part_008:131-604) and nothing else:
\* no reserve is listed and no pause guardian is appointed.
NextDeclared ==
  \/ LedgerCalls(Users)
  \/ ConfigCalls(Users)

SpecDeclared == Init /\ [][NextDeclared]_vars

\* The price oracle alone: its administration, the feed it reads, the
\* recording of prices and the price views.
PriceArgs  == 1..MaxPrice
PeriodArgs == 0..(MaxTime + 1)

NextOracle ==
  \/ \E c \in Users, a \in Listed \cup {ZERO}, f \in {ZERO, FEED} :
       setPriceFeed(c, a, f)
  \/ \E c \in Users : oraclePause(c)
  \/ \E c \in Users : oracleUnpause(c)
  \/ \E a \in Listed, p \in PriceArgs : updatePriceHistory(a, p)
  \/ \E r \in Rounds : feedReports(r)
  \/ mineBlock
  \/ \E a \in Listed : getPriceCall(a)
  \/ \E a \in Listed, d \in PeriodArgs : getPriceChangeCall(a, d)

SpecOracle == Init /\ [][NextOracle]_vars

(***************************************************************************)
(* The library functions and the health-factor views, applied to           *)
(* arguments drawn from bounded sets.                                      *)
(***************************************************************************)
\* First and second operands, and percentages in basis points. The products
\* of a first and a second operand straddle MAX_UINT.
FirstArgs  == {0, 1, 2, 3, 5, 10, 15, 475, 1000, 1677, 1678, 16777, 16778,
               1118481, 1677721, 1677722}
SecondArgs == {0, 1, 2, 3, 5, 10, 15, 499, 500, 501, 1000, 1001, 1279}
BpsArgs    == {0, 1, 5000, 8500, 9500, 10000}

\* calculateHealthFactor of the frontend (part_003:43-54), on bigint: no
\* overflow, both divisions truncate.
calculateHealthFactorHelper(totalCollateralETH, totalDebtETH, liquidationThreshold) ==
  IF totalDebtETH = 0 THEN MAX_UINT
  ELSE (((totalCollateralETH * liquidationThreshold) \div 10000) * WAD)
         \div totalDebtETH

Applied(fn, ret) ==
  /\ mathCall' = [mathCall EXCEPT !.fn = fn, !.ret = ret]
  /\ UNCHANGED <<tokenVars, poolVars, oracle>>

wadMulCall == Applied("wadMul", wadMul(mathCall.args[1], mathCall.args[2]))
wadDivCall == Applied("wadDiv", wadDiv(mathCall.args[1], mathCall.args[2]))
rayMulCall == Applied("rayMul", rayMul(mathCall.args[1], mathCall.args[2]))
rayDivCall == Applied("rayDiv", rayDiv(mathCall.args[1], mathCall.args[2]))
percentMulCall ==
  Applied("percentMul", percentMul(mathCall.args[1], mathCall.args[3]))
percentMulBpsCall ==
  Applied("percentMulBps", percentMulBps(mathCall.args[1], mathCall.args[3]))
rayPowCall == Applied("rayPow", rayPow(mathCall.args[1], mathCall.args[2]))
\* compoundInterest(principal, rate, time): the rate is the third argument
\* drawn, the time the second.
compoundInterestCall ==
  Applied("compoundInterest",
          compoundInterest(mathCall.args[1], mathCall.args[3], mathCall.args[2]))
calculateHealthFactorCall ==
  Applied("calculateHealthFactor",
          calculateHealthFactor(mathCall.args[1], mathCall.args[2], mathCall.args[3]))
\* The frontend is handed amounts of at most 2^15, which keeps its products
\* within the model's integers.
calculateHealthFactorHelperCall ==
  /\ mathCall.args[1] < 2 ^ 15
  /\ Applied("calculateHealthFactorHelper",
             calculateHealthFactorHelper(mathCall.args[1], mathCall.args[2],
                                         mathCall.args[3]))
\* getUserAccountData(user): the sixth value returned is healthFactor.
getUserAccountDataCall(user) ==
  /\ mathCall' = [mathCall EXCEPT !.fn = "getUserAccountData", !.user = user,
                                  !.ret = getUserAccountData(user)[6]]
  /\ UNCHANGED <<tokenVars, poolVars, oracle>>

InitMath ==
  /\ TokenInit
  /\ PoolInit(ZERO, FundsTKN)
  /\ oracle = OracleInit
  /\ mathCall \in {[NoMath EXCEPT !.args = <<a, b, c>>] :
                     a \in FirstArgs, b \in SecondArgs, c \in BpsArgs}

NextMath ==
  \/ wadMulCall
  \/ wadDivCall
  \/ rayMulCall
  \/ rayDivCall
  \/ percentMulCall
  \/ percentMulBpsCall
  \/ rayPowCall
  \/ compoundInterestCall
  \/ calculateHealthFactorCall
  \/ calculateHealthFactorHelperCall
  \/ \E u \in Users : getUserAccountDataCall(u)

SpecMath == InitMath /\ [][NextMath]_vars

(***************************************************************************)
(* Properties.                                                             *)
(***************************************************************************)
RECURSIVE SumOver(_, _)
SumOver(f, S) ==
  IF S = {} THEN 0
  ELSE LET x == CHOOSE y \in S : TRUE IN f[x] + SumOver(f, S \ {x})

\* Positions of a reserve and of a user, as the events of the pool report them.
TotalSupplied(a) == SumOver([u \in Users |-> pool.supplyOf[u][a]], Users)
TotalDebt(a)     == SumOver([u \in Users |-> pool.debtOf[u][a]], Users)
CollateralValue(u) == SumOver(pool.supplyOf[u], Assets)
DebtValue(u)       == SumOver(pool.debtOf[u], Assets)
HealthFactor(u) ==
  calculateHealthFactor(CollateralValue(u), DebtValue(u), LIQUIDATION_THRESHOLD)

\* C1: after every completed operation each reserve's debt, at its borrow
\* index, is at most what was supplied and not withdrawn, at its liquidity
\* index. No code writes either index of a reserve, so both are one unit.
C1_Solvency ==
  executing = NoCall =>
    \A a \in Assets : TotalDebt(a) * RAY <= TotalSupplied(a) * RAY

\* C2: the scaled balances of all users add up to scaledTotalSupply, after
\* every call of the aToken, successful or reverted.
C2_ScaledBalancesSumToTotal == SumOver(scaledBalanceOf, Users) = scaledTotalSupply

\* A burn went through and both users still hold scaled balances.
C2_BurnLeavesHolders ==
  /\ tokenCall.op = "burn" /\ tokenCall.ok
  /\ \A u \in Users : scaledBalanceOf[u] > 0

\* C3: no call of the aToken lowers the stored liquidityIndex.
C3_IndexNeverDecreases == [][liquidityIndex' >= liquidityIndex]_vars

EntryPoints ==
  {"deposit", "withdraw", "borrow", "repay", "swapBorrowRateMode",
   "rebalanceStableBorrowRate", "setUserUseReserveAsCollateral", "setUserEMode",
   "liquidationCall", "flashLoan"}

\* C4: a call of a state-mutating entry point made while another one is
\* executing fails and leaves the pool's state as it was.
C4_NestedCallRejected ==
  [][lastCall'.nested /\ lastCall'.op \in EntryPoints
       => ~lastCall'.ok /\ pool' = pool]_vars

\* C5: after a successful borrow, or a successful withdraw of an asset the
\* user has flagged as collateral, the user's health factor is at least 1.0.
C5_HealthyAfterBorrowOrWithdraw ==
  (/\ lastCall.ok
   /\ IF lastCall.op = "borrow" THEN TRUE
      ELSE /\ lastCall.op = "withdraw"
           /\ CollateralBit(lastCall.asset) \in pool.usersConfig[lastCall.who])
  => HealthFactor(lastCall.who) >= RAY

\* C6: a liquidationCall succeeds only against a user whose health factor is
\* strictly below 1.0, and a rejected one changes nothing.
C6_LiquidationOnlyBelowOne ==
  [][lastCall'.op = "liquidationCall"
       => IF lastCall'.ok THEN HealthFactor(lastCall'.who) < RAY
          ELSE pool' = pool]_vars

\* The settlement of the i-th loan of the flashLoan just made.
FlashLoanSettled(i) ==
  LET a == lastCall'.loans[i].asset
      n == lastCall'.loans[i].amount
      m == lastCall'.loans[i].mode IN
  /\ pool'.cash[a] >= pool.cash[a]
  /\ IF m = 0
       THEN pool'.cash[a] >= pool.cash[a] + percentMulBps(n, FLASHLOAN_PREMIUM_TOTAL)
       ELSE pool'.debtOf[lastCall'.who][a] >= pool.debtOf[lastCall'.who][a] + n

\* C7: a completed flashLoan has, for every listed asset, the premium added
\* to the pool's holdings (mode 0) or the amount opened as debt of onBehalfOf
\* (mode not 0), and never leaves the pool with less; a failed one changes
\* nothing.
C7_FlashLoanRepaidOrDebt ==
  [][lastCall'.op = "flashLoan"
       => IF lastCall'.ok
            THEN \A i \in DOMAIN lastCall'.loans : FlashLoanSettled(i)
            ELSE pool' = pool]_vars

PausableOps ==
  {"deposit", "withdraw", "borrow", "repay", "liquidationCall", "flashLoan"}

\* C8: while the pool is paused, deposit, withdraw, borrow, repay,
\* liquidationCall and flashLoan are rejected and change nothing; a
\* successful unpause clears the flag, and while the flag is clear none of
\* them is rejected for being paused.
C8_PausedRejectsUnpausedAccepts ==
  [][/\ lastCall'.op \in PausableOps
          => IF pool.paused
               THEN ~lastCall'.ok /\ pool' = pool
               ELSE lastCall'.err # "Pausable: paused"
     /\ lastCall'.op = "unpause" /\ lastCall'.ok => ~pool'.paused]_vars

\* A deposit was turned away by the pause.
C8_DepositRejectedWhilePaused ==
  /\ pool.paused
  /\ lastCall.op = "deposit"
  /\ lastCall.err = "Pausable: paused"

\* C9: an operation that went through targeted initialized reserves only:
\* its asset, both assets of a liquidationCall, every asset of a flashLoan.
C9_UninitializedReserveRejected ==
  lastCall.ok =>
    CASE lastCall.op \in {"deposit", "withdraw", "borrow", "repay"}
           -> pool.reserveId[lastCall.asset] # 0
      [] lastCall.op = "liquidationCall"
           -> pool.reserveId[lastCall.asset] # 0 /\ pool.reserveId[lastCall.debtAsset] # 0
      [] lastCall.op = "flashLoan"
           -> \A i \in DOMAIN lastCall.loans : pool.reserveId[lastCall.loans[i].asset] # 0
      [] OTHER -> TRUE

\* C10: a successful repay takes in, and reports as repaid, the smaller of
\* the amount and the debt onBehalfOf owed before the call.
C10_RepayCappedAtDebt ==
  [][lastCall'.op = "repay" /\ lastCall'.ok
       => LET owed == pool.debtOf[lastCall'.who][lastCall'.asset] IN
          /\ lastCall'.ret = Min(lastCall'.amount, owed)
          /\ pool'.cash[lastCall'.asset] - pool.cash[lastCall'.asset]
               = Min(lastCall'.amount, owed)]_vars

BurnUndoesMint ==
  /\ tokenCall.op = "mint" /\ tokenCall.ok
  /\ tokenCall'.op = "burn" /\ tokenCall'.ok
  /\ tokenCall'.user = tokenCall.user
  /\ tokenCall'.amount = tokenCall.amount
  /\ tokenCall'.index = tokenCall.index

TokenStorage ==
  <<liquidityIndex, scaledTotalSupply, scaledBalanceOf, balanceOf, totalSupply>>

\* C13: a burn(user, amount, index) goes through only when the user's scaled
\* balance covers rayDiv(amount, index), so one of more than that fails; a burn
\* that fails leaves the scaled balances, the scaled total, the ERC20 balances
\* and the index as they were.
C13_BurnBeyondScaledBalanceFails ==
  [][tokenCall'.op = "burn"
       => IF tokenCall'.ok
            THEN scaledBalanceOf[tokenCall'.user]
                   >= rayDiv(tokenCall'.amount, tokenCall'.index)
            ELSE TokenStorage' = TokenStorage]_vars

\* A burn has failed in a state where a user's tokens cover an amount whose
\* scaled value at some index the user's scaled balance does not cover.
C13_BurnRefusedDespiteTokens ==
  /\ tokenCall.op = "burn" /\ ~tokenCall.ok /\ ~tokenPaused
  /\ \E u \in Users, a \in 1 .. MaxAmount, i \in IndexArgs :
       /\ i # liquidityIndex /\ rayDiv(a, i) # REVERT
       /\ balanceOf[u] >= a /\ scaledBalanceOf[u] < rayDiv(a, i)

\* The pool's calls that take an amount (debtToCover for liquidationCall).
AmountOps == {"deposit", "withdraw", "borrow", "repay", "liquidationCall"}

\* C14: a call that takes an amount goes through only with a nonzero amount,
\* and one that fails changes nothing: deposit, withdraw, borrow, repay and
\* liquidationCall of the pool, mint and burn of the aToken.
C14_ZeroAmountRejected ==
  [][/\ lastCall'.op \in AmountOps
          => IF lastCall'.ok THEN lastCall'.amount > 0 ELSE pool' = pool
     /\ tokenCall'.op \in {"mint", "burn"}
          => IF tokenCall'.ok THEN tokenCall'.amount > 0
             ELSE TokenStorage' = TokenStorage]_vars

\* A pool call on an active, unpaused reserve was turned away for its zero
\* amount, and the latest mint or burn failed as well.
C14_ZeroAmountTurnedAway ==
  /\ lastCall.op \in AmountOps
  /\ lastCall.err \in {"LendingPool: amount must be greater than 0",
                       "LendingPool: debt to cover must be greater than 0"}
  /\ pool.reserveId[TKN] # 0
  /\ tokenCall.op \in {"mint", "burn"} /\ ~tokenCall.ok

\* C15: updateLiquidityIndex(newIndex) writes the index and nothing else of
\* the token: scaled balances, scaled total and ERC20 balances stay; when it
\* goes through, every user's balanceOfUnderlying is at once
\* rayMul(scaledBalanceOf[user], newIndex) and is not less than before.
C15_IndexUpdateIsLazy ==
  [][tokenCall'.op = "updateLiquidityIndex"
       => /\ <<scaledBalanceOf, scaledTotalSupply, balanceOf, totalSupply>>'
               = <<scaledBalanceOf, scaledTotalSupply, balanceOf, totalSupply>>
          /\ IF tokenCall'.ok
               THEN /\ liquidityIndex' = tokenCall'.index
                    /\ \A u \in Users :
                         /\ balanceOfUnderlying(u)'
                              = rayMul(scaledBalanceOf[u], tokenCall'.index)
                         /\ balanceOfUnderlying(u)' >= balanceOfUnderlying(u)
               ELSE liquidityIndex' = liquidityIndex]_vars

\* The index has just grown while a user holds scaled units.
C15_IndexGrownOverHolder ==
  /\ tokenCall.op = "updateLiquidityIndex" /\ tokenCall.ok
  /\ tokenCall.index > tokenCall.before[4]
  /\ \E u \in Users : scaledBalanceOf[u] > 0

\* The library and the frontend report the maximum for a debt of zero.
LibraryMaxWithoutDebt ==
  mathCall.fn \in {"calculateHealthFactor", "calculateHealthFactorHelper"}
    /\ mathCall.args[2] = 0
    => mathCall.ret = MAX_UINT

\* C16: the health factor reported for a debt of zero is the maximum value:
\* by Math.calculateHealthFactor and by the frontend helper for borrowValue 0,
\* and by getUserAccountData for a user who has never borrowed.
C16_NoDebtMaxHealthFactor ==
  /\ LibraryMaxWithoutDebt
  /\ mathCall.fn = "getUserAccountData"
       /\ (\A a \in Assets : pool.debtOf[mathCall.user][a] = 0)
       => mathCall.ret = MAX_UINT

\* The threshold-weighted collateral, rounded half up.
Weighted(collateral, threshold) == (collateral * threshold + 5000) \div 10000

\* C17: for a debt above zero calculateHealthFactor, when it returns, returns
\* the weighted collateral divided by the debt in ray, rounded half up:
\* 1.9 ray for collateral 1000, threshold 9500 and debt 500; at least one ray
\* when the weighted collateral covers the debt, and less than one ray when
\* it falls short of the debt by more than the rounding.
C17_HealthFactorIsWeightedCollateralOverDebt ==
  mathCall.fn = "calculateHealthFactor" /\ mathCall.args[2] > 0
      /\ mathCall.ret # REVERT
    => LET d == mathCall.args[2]
           w == Weighted(mathCall.args[1], mathCall.args[3]) IN
       /\ mathCall.ret = (w * RAY + d \div 2) \div d
       /\ w >= d => mathCall.ret >= RAY
       /\ w * RAY + d \div 2 < d * RAY => mathCall.ret < RAY
       /\ mathCall.args = <<1000, 500, 9500>> => mathCall.ret = 19 * (RAY \div 10)

\* The health factor of collateral 1000 at 9500 bps against debt 500.
C17_WorkedExample ==
  /\ mathCall.fn = "calculateHealthFactor"
  /\ mathCall.args = <<1000, 500, 9500>>
  /\ mathCall.ret = 19 * (RAY \div 10)

\* C18: calculateHealthFactor does not fall when the collateral grows and
\* does not rise when the debt grows, a debt of zero included, over the
\* arguments for which it returns.
C18_HealthFactorMonotone ==
  mathCall.fn = "calculateHealthFactor" /\ mathCall.ret # REVERT
    => LET c == mathCall.args[1]
           d == mathCall.args[2]
           t == mathCall.args[3] IN
       /\ \A c2 \in FirstArgs :
            c <= c2 /\ calculateHealthFactor(c2, d, t) # REVERT
              => mathCall.ret <= calculateHealthFactor(c2, d, t)
       /\ \A d2 \in SecondArgs :
            d <= d2 /\ calculateHealthFactor(c, d2, t) # REVERT
              => mathCall.ret >= calculateHealthFactor(c, d2, t)

\* The health factor without debt stands above the one with debt 500.
C18_NoDebtAboveSomeDebt ==
  /\ mathCall.fn = "calculateHealthFactor"
  /\ mathCall.args = <<1000, 0, 9500>>
  /\ calculateHealthFactor(1000, 500, 9500) # REVERT
  /\ calculateHealthFactor(1000, 500, 9500) < mathCall.ret

\* floor((a * b + unit / 2) / unit), or failure when a * b + unit / 2 does not
\* fit the word.
MulHalfUp(a, b, unit) ==
  IF a * b + unit \div 2 <= MAX_UINT THEN (a * b + unit \div 2) \div unit
  ELSE REVERT

\* floor((a * unit + floor(b / 2)) / b), or failure when b is zero or
\* a * unit + floor(b / 2) does not fit the word.
DivHalfUp(a, b, unit) ==
  IF b = 0 THEN REVERT
  ELSE IF a * unit + b \div 2 <= MAX_UINT THEN (a * unit + b \div 2) \div b
  ELSE REVERT

\* C19: wadMul, rayMul, wadDiv and rayDiv return the half-up result exactly
\* when the intermediate value fits the word and fail otherwise, division by
\* zero included.
C19_FixedPointHalfUpOrFail ==
  LET a == mathCall.args[1]
      b == mathCall.args[2] IN
  /\ mathCall.fn = "wadMul" => mathCall.ret = MulHalfUp(a, b, WAD)
  /\ mathCall.fn = "rayMul" => mathCall.ret = MulHalfUp(a, b, RAY)
  /\ mathCall.fn = "wadDiv" => mathCall.ret = DivHalfUp(a, b, WAD)
  /\ mathCall.fn = "rayDiv" => mathCall.ret = DivHalfUp(a, b, RAY)

\* rayMul has failed on a product that fits the word by itself but not with
\* the half unit added.
C19_FailsOnTheHalfUnit ==
  /\ mathCall.fn = "rayMul"
  /\ mathCall.ret = REVERT
  /\ mathCall.args[1] * mathCall.args[2] <= MAX_UINT

\* C20: percentMul and percentMulBps, when they return, return
\* floor((amount * bps + 5000) / 10000), which for 10000 bps is the amount.
C20_PercentageInBasisPoints ==
  mathCall.fn \in {"percentMul", "percentMulBps"} /\ mathCall.ret # REVERT
    => /\ mathCall.ret = Weighted(mathCall.args[1], mathCall.args[3])
       /\ mathCall.args[3] = 10000 => mathCall.ret = mathCall.args[1]

\* The longest compounding the period-by-period product is computed for.
MaxPeriods == 15

\* The factor after k more periods: acc multiplied k times by x with rayMul.
RECURSIVE CompoundedByPeriods(_, _, _)
CompoundedByPeriods(acc, x, k) ==
  IF k = 0 THEN acc
  ELSE LET next == rayMul(acc, x) IN
       IF next = REVERT THEN REVERT ELSE CompoundedByPeriods(next, x, k - 1)

\* x multiplied by itself n - 1 times with rayMul; RAY for n = 0.
PeriodByPeriod(x, n) ==
  IF n = 0 THEN RAY ELSE CompoundedByPeriods(x, x, n - 1)

\* C21: rayPow(x, n) is RAY for n = 0, x for n = 1, and for larger n the
\* factor compounded period by period with rayMul, wherever neither overflows.
C21_RayPowIsPeriodByPeriod ==
  mathCall.fn = "rayPow" /\ mathCall.ret # REVERT
      /\ mathCall.args[2] <= MaxPeriods
      /\ PeriodByPeriod(mathCall.args[1], mathCall.args[2]) # REVERT
    => mathCall.ret = PeriodByPeriod(mathCall.args[1], mathCall.args[2])

\* C27: compoundInterest returns the principal for time 0 and, when it
\* returns, no less than the principal for every rate and every time above 0.
C27_CompoundingNeverShrinks ==
  mathCall.fn = "compoundInterest" /\ mathCall.ret # REVERT
    => /\ mathCall.args[2] = 0 => mathCall.ret = mathCall.args[1]
       /\ mathCall.ret >= mathCall.args[1]

C23_WithdrawAllReturnsBalance ==
  [][\A c \in Users :
       /\ pool.supplyOf[c][TKN] > 0
       /\ pool.reserveId[TKN] # 0 /\ ~pool.paused /\ pool.status # "ENTERED"
       /\ withdraw(c, TKN, MAX_UINT, c)
       => /\ lastCall'.err = ""
          /\ lastCall'.ret = pool.supplyOf[c][TKN]
          /\ pool'.wallet[c][TKN] = pool.wallet[c][TKN] + pool.supplyOf[c][TKN]]_vars

\* The bit positions of a user's configuration word.
ConfigBits == 0 .. 255

\* C24: a setUserUseReserveAsCollateral(asset, flag) that succeeds leaves the
\* caller's collateral bit of that reserve equal to the flag, whatever it was
\* (so a repeated call changes nothing and enabling then disabling leaves the
\* bit clear), and changes no other bit of the caller, no bit of another user
\* and nothing else in the pool.
C24_OnlyTheCallersCollateralBit ==
  [][\A c \in Users, a \in Assets, f \in BOOLEAN :
       setUserUseReserveAsCollateral(c, a, f) /\ lastCall'.ok
         => /\ (CollateralBit(a) \in pool'.usersConfig[c]) <=> f
            /\ \A b \in ConfigBits \ {CollateralBit(a)} :
                  (b \in pool'.usersConfig[c]) <=> (b \in pool.usersConfig[c])
            /\ \A u \in Users \ {c} : pool'.usersConfig[u] = pool.usersConfig[u]
            /\ [pool' EXCEPT !.usersConfig = pool.usersConfig] = pool]_vars

\* A user has switched the collateral bit of one reserve while holding the
\* bit of the other reserve, and the other user holds a bit too.
C24_BitSwitchedBesideOthers ==
  /\ lastCall.op = "setUserUseReserveAsCollateral" /\ lastCall.ok
  /\ \E a \in Assets \ {lastCall.asset} :
       /\ pool.reserveId[a] # 0
       /\ CollateralBit(a) \in pool.usersConfig[lastCall.who]
  /\ CollateralBit(lastCall.asset) \notin pool.usersConfig[lastCall.who]
  /\ \E u \in Users \ {lastCall.who} : pool.usersConfig[u] # {}

\* C25: with the index held at RAY, every user's scaledBalanceOf equals their
\* ERC20 balanceOf after any sequence of mint, burn and transfer.
C25_ScaledBalanceIsTokenBalance ==
  \A u \in Users : scaledBalanceOf[u] = balanceOf[u]

\* C26: every LiquidityIndexUpdated event carries as oldIndex the value
\* liquidityIndex held before the call and as newIndex the value it holds
\* after, whether mint, burn or updateLiquidityIndex emits it.
C26_IndexEventCarriesOldAndNew ==
  [][tokenCall'.indexEvent # <<>>
       => tokenCall'.indexEvent = LiquidityIndexUpdated(liquidityIndex, liquidityIndex')]_vars

\* The operations that require an active reserve, the errors of that
\* requirement, and the errors of the argument checks that precede it.
ReserveCalls ==
  {"deposit", "withdraw", "borrow", "repay", "swapBorrowRateMode",
   "rebalanceStableBorrowRate", "setUserUseReserveAsCollateral", "liquidationCall"}
ReserveNotActive ==
  {"LendingPool: reserve not active", "LendingPool: collateral reserve not active",
   "LendingPool: debt reserve not active"}
ArgumentRejected ==
  {"LendingPool: amount must be greater than 0", "LendingPool: to cannot be zero",
   "LendingPool: onBehalfOf cannot be zero",
   "LendingPool: invalid interest rate mode", "LendingPool: invalid rate mode",
   "LendingPool: collateral and debt must be different",
   "LendingPool: user cannot be zero",
   "LendingPool: debt to cover must be greater than 0"}

====
